---- MODULE Spec2Model ----
(***************************************************************************)
(* Model of LevenbergMarquardtOptimizer::iterate / initialState            *)
(* (gtsam/nonlinear/LevenbergMarquardtOptimizer.cpp) and of                *)
(* DiscreteBayesNet::add / evaluate / optimize / sample                    *)
(* (gtsam/discrete/DiscreteBayesNet.cpp).  The two are independent: Spec   *)
(* is a program that uses an optimizer, BayesNetSpec one that builds and   *)
(* queries a Bayes net.                                                    *)
(*                                                                         *)
(* The optimizer instance owns params_, graph_ and the lazily cached       *)
(* dimensions_.  Optimization states are immutable snapshots held by the   *)
(* caller; `states` is the chain of all states handed out so far, each     *)
(* remembering the state it was computed from (parent); the caller passes  *)
(* the newest state to the next call of iterate.                           *)
(* One call of iterate is modelled step by step: the prologue (lines       *)
(* 30-59), one action per outcome of a trial of the try_lambda loop        *)
(* (lines 62-140) and the epilogue (lines 142-149).                        *)
(*                                                                         *)
(* lambda is a C++ double.  The model restricts lambda, lambdaFactor and   *)
(* lambdaUpperBound to powers of two, on which IEEE-754 multiplication and *)
(* division are exact except for underflow to 0 and overflow to +inf.  A   *)
(* double 2^e is represented by its exponent e; 0 and +inf are the two     *)
(* sentinels just outside the exponent range, so that the order of the     *)
(* represented values is the order of the integers.                        *)
(***************************************************************************)
EXTENDS Integers, Sequences, FiniteSets, TLC

\* ------------------------------------------------------------------ bounds
\* largest number of optimization states handed out in one run
MaxStates == 3
\* estimates (Values objects) are the points 0..MaxValue
MaxValue == 2
\* the trial counter of one call saturates here (a call that never ends)
TrialCap == 8
\* largest number of conditionals added to the Bayes net
MaxConditionals == 3

\* ------------------------------------------------------- double arithmetic
\* exponent of the smallest positive double, 2^-1074 (denormal minimum)
DblMinExp == -1074
\* exponent of the largest power of two that is a finite double, 2^1023
DblMaxExp == 1023
\* the double 0.0
DblZero == DblMinExp - 1
\* the double +infinity
DblInf == DblMaxExp + 1

\* rounding of the exact result 2^e to a double: results below 2^-1074
\* round to 0 (2^-1075 is a tie, rounded to the even neighbour 0), results
\* above 2^1023 round to +inf
DblRound(e) ==
  IF e < DblMinExp THEN DblZero
  ELSE IF e > DblMaxExp THEN DblInf
  ELSE e

\* a * f for a double a and a finite positive power of two f
DblMul(a, f) ==
  IF a = DblZero THEN DblZero
  ELSE IF a = DblInf THEN DblInf
  ELSE DblRound(a + f)

\* a / f for a double a and a finite positive power of two f
DblDiv(a, f) ==
  IF a = DblZero THEN DblZero
  ELSE IF a = DblInf THEN DblInf
  ELSE DblRound(a - f)

\* ------------------------------------------------------------ the problem
Values == 0..MaxValue

\* the graphs tried, by their error function: one residual (x - target)^2
\* for each target, and the graph whose error is 0 everywhere
GraphErrors ==
  { [ v \in Values |-> (v - t) * (v - t) ] : t \in Values }
    \cup { [ v \in Values |-> 0 ] }

\* the selector pairs tried: factorization and elimination
Selectors ==
  { [factorization |-> "LDL", elimination |-> "MULTIFRONTAL"],
    [factorization |-> "QR", elimination |-> "SEQUENTIAL"],
    [factorization |-> "INVALID", elimination |-> "SEQUENTIAL"],
    [factorization |-> "LDL", elimination |-> "INVALID"],
    [factorization |-> "INVALID", elimination |-> "INVALID"] }

\* the damping configurations tried: lambdaInitial, lambdaFactor and
\* lambdaUpperBound as exponents of two:
\*   0.5, 2, 2      the bound is hit exactly after two growths
\*   1, 4, 8        the last growth overshoots the bound
\*   2^-1074, 2, 2^-1073   lambda at the bottom of the double range, where
\*                  a chain of accepted iterations arrives from any
\*                  lambdaInitial (1e-5 with factor 10: after 319 of them)
\*   1, 1, 2        a factor that does not grow lambda
LambdaConfigs ==
  { [lambdaInitial |-> -1, lambdaFactor |-> 1, lambdaUpperBound |-> 1],
    [lambdaInitial |-> 0, lambdaFactor |-> 2, lambdaUpperBound |-> 3],
    [lambdaInitial |-> DblMinExp, lambdaFactor |-> 1,
     lambdaUpperBound |-> DblMinExp + 1],
    [lambdaInitial |-> 0, lambdaFactor |-> 0, lambdaUpperBound |-> 1] }

\* the problems tried: the dimensions of the variables under the ordering
\* and the number of factors of the graph
ProblemShapes ==
  { [dims |-> <<1>>, size |-> 1], [dims |-> <<2, 1>>, size |-> 3] }

\* a null pointer; a pointer to an object x is the one-element sequence <<x>>
NULL == << >>

VARIABLES
  params_,       \* LevenbergMarquardtParams of the optimizer
  graph_,        \* the nonlinear factor graph: its error function and size
  dimensions_,   \* mutable cache of the variable dimensions, NULL at first
  states,        \* every state handed out so far
  pc,            \* position of the caller / of the running iterate call
  cur,           \* index in states of the argument of the running call
  linear,        \* local: the linearized graph
  useQR,         \* local
  lambda,        \* local
  next_error,    \* local
  next_values,   \* local
  dampedSystem,  \* local of the loop body: the last damped system built
  raised,        \* the exception that left the last call, or "none"
  trace,         \* history of the running call (not program state)
  history,       \* history of the optimizer instance (not program state)
  conditionals,  \* DiscreteBayesNet: the stored conditionals, in order
  query          \* the running or last query on the Bayes net

vars == << params_, graph_, dimensions_, states, pc, cur, linear, useQR,
           lambda, next_error, next_values, dampedSystem, raised, trace,
           history, conditionals, query >>

\* the variables of the optimizer and those of the Bayes net
optimizer == << params_, graph_, dimensions_, states, pc, cur, linear, useQR,
                lambda, next_error, next_values, dampedSystem, raised, trace,
                history >>
net == << conditionals, query >>

locals == << linear, useQR, lambda, next_error, next_values, dampedSystem >>

\* the locals of iterate do not exist outside a call
NoLocals ==
  /\ linear' = NULL
  /\ useQR' = FALSE
  /\ lambda' = DblZero
  /\ next_error' = 0
  /\ next_values' = 0
  /\ dampedSystem' = NULL

NoTrace ==
  [ nLinearize |-> 0, nDamped |-> 0, nSolve |-> 0, trials |-> 0,
    rejected |-> 0, outcome |-> "none", trialLambda |-> DblZero,
    damped |-> NULL, lenAtCall |-> 0 ]

\* nDims: how often current.values.dims(ordering) was evaluated (line 59);
\* last: the estimate, the lambda and the outcome of the last trial that
\* called the solver; stalledAt: the first state that a give-up returned
NoHistory == [ nDims |-> 0, last |-> NULL, stalledAt |-> 0 ]

\* no query was made: op is the operation, values its argument, value the
\* number it returned, todo the conditionals still to be visited, done the
\* conditionals visited, result the assignment built, at where the call is
NoQuery ==
  [ op |-> "none", values |-> << >>, value |-> 0, todo |-> << >>,
    done |-> << >>, result |-> << >>, at |-> "idle" ]

Init ==
  /\ conditionals = << >>
  /\ query = NoQuery
  /\ \E s \in Selectors, c \in LambdaConfigs :
       params_ = [ factorization |-> s.factorization,
                   elimination |-> s.elimination,
                   lambdaInitial |-> c.lambdaInitial,
                   lambdaFactor |-> c.lambdaFactor,
                   lambdaUpperBound |-> c.lambdaUpperBound ]
  /\ \E err \in GraphErrors, shape \in ProblemShapes :
       graph_ = [ error |-> err, dims |-> shape.dims, size |-> shape.size ]
  /\ dimensions_ = NULL
  /\ states = << >>
  /\ pc = "idle"
  /\ cur = 0
  /\ linear = NULL
  /\ useQR = FALSE
  /\ lambda = DblZero
  /\ next_error = 0
  /\ next_values = 0
  /\ dampedSystem = NULL
  /\ raised = "none"
  /\ trace = NoTrace
  /\ history = NoHistory

\* ------------------------------------------------- collaborators and steps
Min(a, b) == IF a <= b THEN a ELSE b

\* graph_->linearize(current.values, ordering): one linear factor per factor
Linearize(values) == [ at |-> values, size |-> graph_.size ]

\* the factorization selector is one of the two known values
ValidFactorization(f) == f \in {"LDL", "QR"}

UseQR(f) == f = "QR"

\* the final else-throw left out: an unknown selector goes on to a solver
ValidEliminationLax(e) == TRUE

\* the elimination selector is one of the two known values
ValidElimination(e) == e \in {"MULTIFRONTAL", "SEQUENTIAL"}

\* current.values.dims(ordering)
DimsOf(values) == graph_.dims

\* sigma = 1.0 / sqrt(lambda) for lambda = 2^e is 2^(-e/2): kept as twice its
\* exponent; 1/sqrt(0) is +inf and 1/sqrt(+inf) is 0
Sigma(l) ==
  IF l = DblZero THEN [ special |-> "inf", twiceExp |-> 0 ]
  ELSE IF l = DblInf THEN [ special |-> "zero", twiceExp |-> 0 ]
  ELSE [ special |-> "none", twiceExp |-> 0 - l ]

\* dampedSystem declared outside the loop: the priors of a trial are pushed
\* onto the system left by the trial before
DampedSystemAccumulating(L, dims, l) ==
  LET priors == [ j \in 1..Len(dims) |->
                    [ key |-> j, dim |-> dims[j], sigma |-> Sigma(l) ] ]
  IN [ linear |-> L,
       priors |-> IF dampedSystem = NULL THEN priors
                  ELSE dampedSystem[1].priors \o priors ]

\* GaussianFactorGraph dampedSystem(*linear) plus one prior per variable
DampedSystem(L, dims, l) ==
  [ linear |-> L,
    priors |-> [ j \in 1..Len(dims) |->
                   [ key |-> j, dim |-> dims[j], sigma |-> Sigma(l) ] ] ]

DampedSize(d) == d.linear.size + Len(d.priors)

\* current.values.retract(*delta, ordering)
Retract(values, delta) == values + delta

\* the steps the solver can return from an estimate
Deltas(values) == { d \in (0 - MaxValue)..MaxValue : values + d \in Values }

\* graph_->error(newValues)
GraphError(values) == graph_.error[values]

\* the acceptance test left out: every solved candidate is taken
AcceptsAlways(error, currentError) == TRUE

\* if(error <= current.error)
Accepts(error, currentError) == error <= currentError

\* the bound test written with > instead of >=
AtUpperBoundStrict(l) == l > params_.lambdaUpperBound

\* the bound test that always gives up: a break on every rejection
AtUpperBoundAlways(l) == TRUE

\* if(lambda >= params_->lambdaUpperBound)
AtUpperBound(l) == l >= params_.lambdaUpperBound

\* the division left out on acceptance
MoreAdventurousNot(l) == l

\* lambda /= lambdaFactor
MoreAdventurous(l) == DblDiv(l, params_.lambdaFactor)

\* lambda multiplied by the factor twice on a rejection
MoreConservativeTwice(l) ==
  DblMul(DblMul(l, params_.lambdaFactor), params_.lambdaFactor)

\* lambda *= lambdaFactor
MoreConservative(l) == DblMul(l, params_.lambdaFactor)

\* the iteration count advanced by the number of trials of the call
NewStateCountsTrials(current, values, error, l, parent) ==
  [ values |-> values, error |-> error,
    iterations |-> current.iterations + trace.trials,
    lambda |-> l, parent |-> parent ]

\* the state created at the end of iterate
NewState(current, values, error, l, parent) ==
  [ values |-> values, error |-> error, iterations |-> current.iterations + 1,
    lambda |-> l, parent |-> parent ]

\* next_values bound by reference to current.values: the accepted candidate
\* is swapped into the state that was passed in
HandOutAliased(all, newState) ==
  IF all = << >> THEN << newState >>
  ELSE Append([ all EXCEPT ![Len(all)].values = newState.values ], newState)

\* the new state is a fresh object next to the ones handed out before
HandOut(all, newState) == Append(all, newState)

\* NonlinearOptimizer::defaultInitialState: the estimate, its error, no
\* iteration yet
DefaultInitialState(values) ==
  [ values |-> values, error |-> GraphError(values), iterations |-> 0,
    lambda |-> DblZero, parent |-> 0 ]

AtCaller == pc \in {"idle", "returned", "raised"}

\* ---------------------------------------------------------------- actions
\* initialState(initialValues)
InitialState(initialValues) ==
  /\ AtCaller
  /\ states = << >>
  /\ states' = HandOut(states,
       [ DefaultInitialState(initialValues)
           EXCEPT !.lambda = params_.lambdaInitial ])
  /\ pc' = "idle"
  /\ cur' = 0
  /\ raised' = "none"
  /\ trace' = NoTrace
  /\ UNCHANGED net
  /\ UNCHANGED << params_, graph_, dimensions_, locals, history >>

\* the cache test left out: the dimensions are computed by every call
CacheMissAlways == TRUE

\* if(!dimensions_)
CacheMiss == dimensions_ = NULL

\* iterate(_current), lines 30-59, with a known factorization selector
IterateBegin(i) ==
  /\ AtCaller
  /\ i \in 1..Len(states)
  /\ Len(states) < MaxStates
  /\ ValidFactorization(params_.factorization)
  /\ cur' = i
  /\ linear' = << Linearize(states[i].values) >>
  /\ useQR' = UseQR(params_.factorization)
  /\ lambda' = states[i].lambda
  /\ next_error' = states[i].error
  /\ next_values' = states[i].values
  /\ dimensions_' = IF CacheMiss THEN << DimsOf(states[i].values) >>
                    ELSE dimensions_
  /\ history' = [ history EXCEPT
                    !.nDims = IF CacheMiss THEN Min(@ + 1, MaxStates) ELSE @ ]
  /\ dampedSystem' = NULL
  /\ pc' = "loop"
  /\ raised' = "none"
  /\ trace' = [ NoTrace EXCEPT !.nLinearize = 1, !.lenAtCall = Len(states) ]
  /\ UNCHANGED net
  /\ UNCHANGED << params_, graph_, states >>

\* iterate(_current), lines 30-45, with an unknown factorization selector
IterateBadFactorization(i) ==
  /\ AtCaller
  /\ i \in 1..Len(states)
  /\ ~ValidFactorization(params_.factorization)
  /\ cur' = i
  /\ pc' = "raised"
  /\ raised' = "runtime_error: factorization"
  /\ trace' = [ NoTrace EXCEPT !.nLinearize = 1, !.lenAtCall = Len(states) ]
  /\ NoLocals
  /\ UNCHANGED net
  /\ UNCHANGED << params_, graph_, dimensions_, states, history >>

\* history of one trial: the damped system was built with the present
\* lambda (lines 68-81; it is a local of the loop body, gone when the trial
\* throws), the solver was or was not called, and the trial ended as given
Traced(outcome, solved, isRejection) ==
  [ trace EXCEPT !.nDamped = Min(@ + 1, TrialCap),
                 !.nSolve = Min(@ + solved, TrialCap),
                 !.trials = Min(@ + 1, TrialCap),
                 !.rejected = Min(@ + isRejection, TrialCap),
                 !.outcome = outcome,
                 !.trialLambda = lambda,
                 !.damped = << DampedSystem(linear[1], dimensions_[1],
                                            lambda) >> ]

\* history of the instance: the solver was called for the damped system of
\* the present estimate and lambda, and the trial ended as given
Recorded(outcome) ==
  [ history EXCEPT !.last = << [ values |-> states[cur].values,
                                 lambda |-> lambda,
                                 outcome |-> outcome ] >> ]

\* lines 62-82: the head of the loop body
BuildDamped ==
  /\ pc = "loop"
  /\ dampedSystem' = << DampedSystem(linear[1], dimensions_[1], lambda) >>

\* giving up at the upper bound by throwing instead of by break
RejectTrialThrowing ==
  IF AtUpperBound(lambda)
  THEN /\ pc' = "raised"
       /\ lambda' = lambda
  ELSE /\ pc' = "loop"
       /\ lambda' = MoreConservative(lambda)

\* giving up with lambda divided, as after an accepted trial
RejectTrialRelaxing ==
  IF AtUpperBound(lambda)
  THEN /\ pc' = "exit"
       /\ lambda' = MoreAdventurous(lambda)
  ELSE /\ pc' = "loop"
       /\ lambda' = MoreConservative(lambda)

\* lines 116-122 and 130-136: give up at the upper bound, else grow lambda
RejectTrial ==
  IF AtUpperBound(lambda)
  THEN /\ pc' = "exit"
       /\ lambda' = lambda
  ELSE /\ pc' = "loop"
       /\ lambda' = MoreConservative(lambda)

\* a trial with an unknown elimination selector, lines 89-94 and 137-139
TrialBadElimination ==
  /\ pc = "loop"
  /\ ~ValidElimination(params_.elimination)
  /\ pc' = "raised"
  /\ raised' = "runtime_error: elimination"
  /\ trace' = Traced("badElimination", 0, 0)
  /\ NoLocals
  /\ UNCHANGED net
  /\ UNCHANGED << params_, graph_, dimensions_, states, cur, history >>

\* an accepted trial that keeps the error of the candidate but not the
\* candidate: the swap of line 108 left out
TrialAcceptWithoutSwap ==
  /\ BuildDamped
  /\ ValidElimination(params_.elimination)
  /\ \E delta \in Deltas(states[cur].values) :
       LET newValues == Retract(states[cur].values, delta)
           error == GraphError(newValues)
       IN /\ Accepts(error, states[cur].error)
          /\ next_values' = next_values
          /\ next_error' = error
  /\ lambda' = MoreAdventurous(lambda)
  /\ pc' = "exit"
  /\ trace' = Traced("accepted", 1, 0)
  /\ history' = Recorded("accepted")
  /\ UNCHANGED net
  /\ UNCHANGED << params_, graph_, dimensions_, states, cur, linear, useQR,
                  raised >>

\* a trial whose solve succeeds and whose candidate is no worse, 85-111
TrialAccept ==
  /\ BuildDamped
  /\ ValidElimination(params_.elimination)
  /\ \E delta \in Deltas(states[cur].values) :
       LET newValues == Retract(states[cur].values, delta)
           error == GraphError(newValues)
       IN /\ Accepts(error, states[cur].error)
          /\ next_values' = newValues
          /\ next_error' = error
  /\ lambda' = MoreAdventurous(lambda)
  /\ pc' = "exit"
  /\ trace' = Traced("accepted", 1, 0)
  /\ history' = Recorded("accepted")
  /\ UNCHANGED net
  /\ UNCHANGED << params_, graph_, dimensions_, states, cur, linear, useQR,
                  raised >>

\* a trial whose solve succeeds and whose candidate is worse, 85-123
TrialWorse ==
  /\ BuildDamped
  /\ ValidElimination(params_.elimination)
  /\ \E delta \in Deltas(states[cur].values) :
       LET newValues == Retract(states[cur].values, delta)
           error == GraphError(newValues)
       IN ~Accepts(error, states[cur].error)
  /\ RejectTrial
  /\ trace' = Traced("worse", 1, 1)
  /\ history' = Recorded("worse")
  /\ UNCHANGED net
  /\ UNCHANGED << params_, graph_, dimensions_, states, cur, linear, useQR,
                  next_error, next_values, raised >>

\* a catch block that rejects without growing lambda
TrialIndefiniteKeepsLambda ==
  /\ BuildDamped
  /\ ValidElimination(params_.elimination)
  /\ pc' = IF AtUpperBound(lambda) THEN "exit" ELSE "loop"
  /\ lambda' = lambda
  /\ trace' = Traced("indefinite", 1, 1)
  /\ history' = Recorded("indefinite")
  /\ UNCHANGED net
  /\ UNCHANGED << params_, graph_, dimensions_, states, cur, linear, useQR,
                  next_error, next_values, raised >>

\* a trial whose solve throws NegativeMatrixException, 85-92 and 124-136
TrialIndefinite ==
  /\ BuildDamped
  /\ ValidElimination(params_.elimination)
  /\ RejectTrial
  /\ trace' = Traced("indefinite", 1, 1)
  /\ history' = Recorded("indefinite")
  /\ UNCHANGED net
  /\ UNCHANGED << params_, graph_, dimensions_, states, cur, linear, useQR,
                  next_error, next_values, raised >>

\* catch(...) that treats every failure like NegativeMatrixException
TrialFatalSwallowed ==
  /\ BuildDamped
  /\ ValidElimination(params_.elimination)
  /\ RejectTrial
  /\ trace' = Traced("fatal", 1, 1)
  /\ history' = Recorded("fatal")
  /\ UNCHANGED net
  /\ UNCHANGED << params_, graph_, dimensions_, states, cur, linear, useQR,
                  next_error, next_values, raised >>

\* a trial in which the solver (or retract, or error) throws anything else,
\* lines 85-103 and 137-139
TrialFatal ==
  /\ pc = "loop"
  /\ ValidElimination(params_.elimination)
  /\ pc' = "raised"
  /\ raised' = "solver failure"
  /\ trace' = Traced("fatal", 1, 0)
  /\ history' = Recorded("fatal")
  /\ NoLocals
  /\ UNCHANGED net
  /\ UNCHANGED << params_, graph_, dimensions_, states, cur >>

\* lines 142-149: the new state is created and returned
IterateReturn ==
  /\ pc = "exit"
  /\ states' = HandOut(states,
       NewState(states[cur], next_values, next_error, lambda, cur))
  /\ pc' = "returned"
  /\ NoLocals
  /\ history' = [ history EXCEPT
                    !.stalledAt =
                      IF @ = 0 /\ trace.outcome \in {"worse", "indefinite"}
                      THEN Len(states) + 1 ELSE @ ]
  /\ UNCHANGED net
  /\ UNCHANGED << params_, graph_, dimensions_, cur, raised, trace >>

Next ==
  \/ \E v \in Values : InitialState(v)
  \/ IterateBegin(Len(states))
  \/ IterateBadFactorization(Len(states))
  \/ TrialBadElimination
  \/ TrialAccept
  \/ TrialWorse
  \/ TrialIndefinite
  \/ TrialFatal
  \/ IterateReturn

Spec == Init /\ [][Next]_vars

\* the loop body always runs to one of its outcomes: iterate is synchronous
\* single-threaded code and every call it makes returns or throws
Trial ==
  \/ TrialBadElimination
  \/ TrialAccept
  \/ TrialWorse
  \/ TrialIndefinite
  \/ TrialFatal

FairSpec == Spec /\ WF_vars(Trial) /\ WF_vars(IterateReturn)

\* linearize, the solvers, retract and error are functions of their
\* arguments: a trial made for the estimate and the lambda of the trial
\* before it ends as that trial did
Deterministic(outcome) ==
  /\ pc = "loop"
  /\ IF history.last = NULL THEN TRUE
     ELSE (/\ history.last[1].values = states[cur].values
           /\ history.last[1].lambda = lambda)
            => history.last[1].outcome = outcome

\* the trials of a program whose linearize, solve, retract and error are
\* deterministic
DeterministicAccept == Deterministic("accepted") /\ TrialAccept
DeterministicWorse == Deterministic("worse") /\ TrialWorse
DeterministicIndefinite == Deterministic("indefinite") /\ TrialIndefinite
DeterministicFatal == Deterministic("fatal") /\ TrialFatal

DeterministicNext ==
  \/ \E v \in Values : InitialState(v)
  \/ IterateBegin(Len(states))
  \/ IterateBadFactorization(Len(states))
  \/ TrialBadElimination
  \/ DeterministicAccept
  \/ DeterministicWorse
  \/ DeterministicIndefinite
  \/ DeterministicFatal
  \/ IterateReturn

DeterministicSpec == Init /\ [][DeterministicNext]_vars

\* DiscreteBayesNet (DiscreteBayesNet.cpp): add, evaluate, optimize, sample.
\* The variables are binary; a probability is held in tenths, so that a
\* product of n table values is the joint probability times 10^n.
Keys == {1, 2, 3}
Domain == {0, 1}
Rows == { <<6, 4>>, <<0, 10>> }

\* the tables of a signature: one row per assignment of the parents, and
\* not the same row for all of them
Tables(parents) ==
  { t \in [ [1..Len(parents) -> Domain] -> Rows ] :
      parents = << >> \/ \E a, b \in DOMAIN t : t[a] # t[b] }

\* the signatures handed to add: a variable without parents, or a variable
\* with the variable before it as its parent
Signatures ==
  { [ key |-> k, parents |-> << >>, table |-> t ] :
      k \in Keys, t \in Tables(<< >>) }
  \cup UNION { { [ key |-> k, parents |-> << k - 1 >>, table |-> t ] :
                   t \in Tables(<< k - 1 >>) } : k \in Keys \ {1} }

\* the assignments handed to evaluate: a value for every variable
Assignments == [Keys -> Domain]

\* DiscreteConditional(s): the conditional of a signature
Conditional(s) ==
  [ frontal |-> s.key, parents |-> s.parents, cpt |-> s.table ]

ParentsOf(c) == { c.parents[i] : i \in 1..Len(c.parents) }

\* the row of the table for the parents' values in an assignment
Row(c, values) ==
  c.cpt[[ i \in 1..Len(c.parents) |-> values[c.parents[i]] ]]

\* (*conditional)(values)
Lookup(c, values) == Row(c, values)[values[c.frontal] + 1]

\* values[key] = v on a map
Put(values, key, v) ==
  [ k \in (DOMAIN values) \cup {key} |-> IF k = key THEN v ELSE values[k] ]

\* conditional->solveInPlace(values): the frontal variable takes the value
\* of largest conditional probability given the parents' values (the first
\* such value if there are several)
SolveInPlace(c, values) ==
  LET row == Row(c, values)
      best == CHOOSE v \in Domain :
                \A w \in Domain : \/ row[w + 1] < row[v + 1]
                                  \/ row[w + 1] = row[v + 1] /\ v <= w
  IN Put(values, c.frontal, best)

\* conditional->sampleInPlace(values): the values the frontal variable can
\* be given, those of nonzero conditional probability
Samples(c, values) == { v \in Domain : Row(c, values)[v + 1] > 0 }

\* the conditional put in front of the stored ones
PushFront(all, c) == << c >> \o all

\* push_back
PushBack(all, c) == Append(all, c)

RECURSIVE EvaluateAll(_, _)

\* result = (*conditional)(values) in place of result *=
EvaluateAssigning(all, values) ==
  IF all = << >> THEN 1 ELSE Lookup(all[Len(all)], values)

\* double result = 1.0; BOOST_FOREACH(...) result *= (*conditional)(values)
EvaluateAll(all, values) ==
  IF all = << >> THEN 1
  ELSE EvaluateAll(SubSeq(all, 1, Len(all) - 1), values)
         * Lookup(all[Len(all)], values)

\* BOOST_FOREACH in place of BOOST_REVERSE_FOREACH
ForwardOrder(all) == [ i \in 1..Len(all) |-> i ]

\* BOOST_REVERSE_FOREACH: the indices of the conditionals, last to first
ReverseOrder(all) == [ i \in 1..Len(all) |-> Len(all) + 1 - i ]

AtNetCaller == query.at \in {"idle", "returned", "failed"}

\* add(s)
Add(s) ==
  /\ AtNetCaller
  /\ Len(conditionals) < MaxConditionals
  /\ conditionals' = PushBack(conditionals, Conditional(s))
  /\ query' = NoQuery
  /\ UNCHANGED optimizer

\* evaluate(values)
Evaluate(values) ==
  /\ AtNetCaller
  /\ query' = [ NoQuery EXCEPT !.op = "evaluate", !.values = values,
                              !.value = EvaluateAll(conditionals, values),
                              !.at = "returned" ]
  /\ UNCHANGED << conditionals, optimizer >>

\* a traversal begins with an empty result (lines 45-46 and 54-55)
Begin(op) ==
  /\ AtNetCaller
  /\ query' = [ NoQuery EXCEPT !.op = op,
                              !.todo = ReverseOrder(conditionals),
                              !.at = "loop" ]
  /\ UNCHANGED << conditionals, optimizer >>

\* one conditional was visited: it gave its frontal variable a value
Visited(newResult) ==
  [ query EXCEPT !.result = newResult,
                 !.todo = Tail(@),
                 !.done = Append(@, Head(query.todo)) ]

\* one pass of the loop of optimize, line 47; a conditional whose parents
\* have no value in the result cannot look up its row and the call fails
OptimizeStep ==
  /\ query.op = "optimize"
  /\ query.at = "loop"
  /\ query.todo # << >>
  /\ LET c == conditionals[Head(query.todo)]
     IN IF ParentsOf(c) \subseteq DOMAIN query.result
        THEN query' = Visited(SolveInPlace(c, query.result))
        ELSE query' = [ query EXCEPT !.at = "failed" ]
  /\ UNCHANGED << conditionals, optimizer >>

\* one pass of the loop of sample, line 56
SampleStep ==
  /\ query.op = "sample"
  /\ query.at = "loop"
  /\ query.todo # << >>
  /\ LET c == conditionals[Head(query.todo)]
     IN IF ParentsOf(c) \subseteq DOMAIN query.result
        THEN \E v \in Samples(c, query.result) :
               query' = Visited(Put(query.result, c.frontal, v))
        ELSE query' = [ query EXCEPT !.at = "failed" ]
  /\ UNCHANGED << conditionals, optimizer >>

\* return result, lines 48 and 57
Return(op) ==
  /\ query.op = op
  /\ query.at = "loop"
  /\ query.todo = << >>
  /\ query' = [ query EXCEPT !.at = "returned" ]
  /\ UNCHANGED << conditionals, optimizer >>

\* optimize() and sample()
OptimizeBegin == Begin("optimize")
OptimizeReturn == Return("optimize")
SampleBegin == Begin("sample")
SampleReturn == Return("sample")

\* a program that builds and queries a Bayes net and has no optimizer
BayesNetInit ==
  /\ conditionals = << >>
  /\ query = NoQuery
  /\ params_ = NULL
  /\ graph_ = NULL
  /\ dimensions_ = NULL
  /\ states = << >>
  /\ pc = "idle"
  /\ cur = 0
  /\ linear = NULL
  /\ useQR = FALSE
  /\ lambda = DblZero
  /\ next_error = 0
  /\ next_values = 0
  /\ dampedSystem = NULL
  /\ raised = "none"
  /\ trace = NoTrace
  /\ history = NoHistory

BayesNetNext ==
  \/ \E s \in Signatures : Add(s)
  \/ \E values \in Assignments : Evaluate(values)
  \/ OptimizeBegin
  \/ OptimizeStep
  \/ OptimizeReturn
  \/ SampleBegin
  \/ SampleStep
  \/ SampleReturn

BayesNetSpec == BayesNetInit /\ [][BayesNetNext]_vars

\* ------------------------------------------------------------- properties
\* the state passed to the last call of iterate, and the state it returned
Current == states[cur]
Returned == states[Len(states)]

HasReturned == pc = "returned"
GaveUp == trace.outcome \in {"worse", "indefinite"}
Accepted == trace.outcome = "accepted"
ValidSelectors ==
  /\ params_.factorization \in {"LDL", "QR"}
  /\ params_.elimination \in {"MULTIFRONTAL", "SEQUENTIAL"}

\* C1: the state returned by iterate has an error no larger than the error
\* of the state passed in, whatever happened in the trials; so the errors
\* along the chain of states never increase.
C1_ErrorNeverRegresses ==
  /\ HasReturned => Returned.error <= Current.error
  /\ \A i, j \in 1..Len(states) :
       i <= j => states[j].error <= states[i].error

\* a chain with an iteration that kept the error and one that lowered it
\* after a rejected trial
C1_Witness ==
  /\ HasReturned
  /\ Len(states) = 3
  /\ states[2].error = states[1].error
  /\ states[3].error < states[2].error
  /\ trace.rejected >= 1

\* C2: when every trial of a call was rejected, up to one made with
\* lambda >= lambdaUpperBound, iterate returns without an error a state with
\* the estimate and error of the state passed in and one more iteration.
C2_GiveUpKeepsState ==
  /\ (GaveUp /\ trace.trialLambda >= params_.lambdaUpperBound)
       => (pc \in {"exit", "returned"} /\ raised = "none")
  /\ (HasReturned /\ GaveUp)
       => /\ Returned.values = Current.values
          /\ Returned.error = Current.error
          /\ Returned.iterations = Current.iterations + 1
          /\ raised = "none"

\* a give-up after rejections of both kinds, the last one at the bound
C2_Witness ==
  /\ HasReturned
  /\ GaveUp
  /\ trace.rejected >= 2
  /\ trace.trialLambda = params_.lambdaUpperBound

\* lambda * lambdaFactor^n, in double arithmetic
RECURSIVE Grown(_, _)
Grown(l, n) ==
  IF n = 0 THEN l ELSE Grown(DblMul(l, params_.lambdaFactor), n - 1)

ConfigError ==
  raised \in {"runtime_error: factorization", "runtime_error: elimination"}

\* C4 as stated: an invalid factorization or elimination selector makes
\* iterate raise its configuration error before the graph is linearized,
\* before any damped system is built and before any solve is attempted.
C4_AsClaimed ==
  ConfigError
    => (trace.nLinearize = 0 /\ trace.nDamped = 0 /\ trace.nSolve = 0)

\* C4 as amended: a configuration error is raised before any solve attempt
\* and before any state is produced, but after the graph was linearized once;
\* an invalid factorization selector is found before any damped system is
\* built and ends the call there, an invalid elimination selector (with a
\* valid factorization selector) is found in the first trial, after that
\* trial's damped system was built, and ends the call there.
C4_ConfigErrorOrder ==
  /\ ConfigError
       => (trace.nLinearize = 1 /\ trace.nSolve = 0 /\ pc = "raised"
           /\ Len(states) = trace.lenAtCall)
  /\ raised = "runtime_error: factorization"
       => (trace.nDamped = 0 /\ trace.trials = 0)
  /\ raised = "runtime_error: elimination"
       => (trace.nDamped = 1 /\ trace.trials = 1)
  /\ ~ValidFactorization(params_.factorization)
       => (pc \in {"idle", "raised"} /\ trace.trials = 0
           /\ (pc = "raised" => raised = "runtime_error: factorization"))
  /\ (ValidFactorization(params_.factorization)
      /\ params_.elimination \notin {"MULTIFRONTAL", "SEQUENTIAL"})
       => (pc \in {"idle", "loop", "raised"} /\ trace.nSolve = 0
           /\ (pc = "loop" => trace.trials = 0)
           /\ (pc = "raised" => raised = "runtime_error: elimination"))

\* an invalid elimination selector found after linearizing and building the
\* first damped system
C4_Witness ==
  /\ raised = "runtime_error: elimination"
  /\ pc = "raised"
  /\ trace.nLinearize = 1
  /\ trace.nDamped = 1
  /\ trace.damped # NULL

\* C5 as stated: with valid selectors no outcome of a damped solve makes
\* iterate raise an error to its caller.
C5_AsClaimed == ValidSelectors => pc # "raised"

\* C5 as amended: with valid selectors iterate raises only when a solve
\* fails with something other than indefiniteness; an indefinite solve and
\* a worse candidate are resolved inside the loop, as a rejection that
\* grows lambda or as a give-up, and never raise.
C5_OnlyFatalFailureRaises ==
  /\ (ValidSelectors /\ pc = "raised")
       => (trace.outcome = "fatal" /\ raised = "solver failure")
  /\ trace.outcome \in {"accepted", "worse", "indefinite"}
       => (pc \in {"loop", "exit", "returned"} /\ raised = "none")

\* valid selectors, two trials rejected inside the loop, then a solver
\* failure that leaves iterate
C5_Witness ==
  /\ ValidSelectors
  /\ pc = "raised"
  /\ trace.outcome = "fatal"
  /\ trace.rejected = 2
  /\ raised = "solver failure"

\* C6: a solver failure other than indefiniteness leaves iterate as that
\* failure on the trial where it occurs: no further trial, lambda not grown,
\* no new state, the states handed out before unchanged.
C6_FatalPropagates ==
  trace.outcome = "fatal"
    => /\ pc = "raised"
       /\ raised = "solver failure"
       /\ Len(states) = trace.lenAtCall
       /\ trace.trials < TrialCap
            => (trace.nSolve = trace.trials
                /\ trace.rejected = trace.trials - 1)

\* a fatal failure on the third trial of a call
C6_Witness ==
  /\ trace.outcome = "fatal"
  /\ trace.trials = 3
  /\ pc = "raised"

\* the least n with l * lambdaFactor^n >= lambdaUpperBound, for a factor > 1
RECURSIVE LeastGrowths(_)
LeastGrowths(l) ==
  IF l >= params_.lambdaUpperBound THEN 0
  ELSE 1 + LeastGrowths(DblMul(l, params_.lambdaFactor))

\* a call is running or has ended, with current.lambda > 0, lambdaFactor > 1
\* and a finite lambdaUpperBound
DampingCanSaturate ==
  /\ cur > 0
  /\ Current.lambda > DblZero
  /\ params_.lambdaFactor > 0
  /\ params_.lambdaUpperBound < DblInf

\* the trial loop is left by break (control is at line 142 or beyond) only
\* after an accepted trial or a rejected trial made at or above the bound,
\* and a call that can saturate makes at most n + 1 trials
C7_TrialsBounded ==
  /\ pc \in {"exit", "returned"}
       => (Accepted \/ (GaveUp /\ trace.trialLambda >= params_.lambdaUpperBound))
  /\ DampingCanSaturate
       => /\ LeastGrowths(Current.lambda) + 1 < TrialCap
          /\ trace.trials <= LeastGrowths(Current.lambda) + 1

\* C7: the trial loop ends only by an accepted trial or by a rejected trial
\* made with lambda >= lambdaUpperBound; with current.lambda > 0,
\* lambdaFactor > 1 and a finite bound every call of iterate ends, after at
\* most n + 1 trials, n the least number with
\* current.lambda * lambdaFactor^n >= lambdaUpperBound.
C7_LoopTerminates ==
  /\ []C7_TrialsBounded
  /\ [](  (pc = "loop" /\ DampingCanSaturate)
            => <>(pc \in {"returned", "raised"}) )

\* a call that used all of its n + 1 = 3 trials and gave up
C7_Witness ==
  /\ HasReturned
  /\ DampingCanSaturate
  /\ GaveUp
  /\ trace.trials = 3
  /\ trace.trials = LeastGrowths(Current.lambda) + 1

\* C8: with lambdaInitial > 0 and lambdaFactor > 0, the lambda of every
\* state reachable from initialState by calls of iterate, and every lambda
\* a damped system is built with, is strictly positive.
C8_LambdaPositive ==
  params_.lambdaInitial > DblZero
    => /\ \A i \in 1..Len(states) : states[i].lambda > DblZero
       /\ trace.trials > 0 => trace.trialLambda > DblZero

\* C9: initialState returns iterations = 0 and lambda = lambdaInitial; every
\* call of iterate that returns, accepting or giving up and after any number
\* of trials, returns iterations = current.iterations + 1; so the state
\* after n chained calls has iterations = n.
C9_IterationCounting ==
  /\ \A i \in 1..Len(states) :
       /\ states[i].parent = 0
            => (states[i].iterations = 0
                /\ states[i].lambda = params_.lambdaInitial)
       /\ states[i].parent > 0
            => states[i].iterations = states[states[i].parent].iterations + 1
       /\ states[i].iterations = i - 1
  /\ HasReturned => Returned.iterations = Current.iterations + 1

\* the second call of a chain returned after three trials
C9_Witness ==
  /\ HasReturned
  /\ Len(states) = 3
  /\ trace.trials = 3
  /\ Returned.iterations = 2

\* C10: iterate returns a new state and leaves the state passed in, and
\* every state handed out before, as it was, on every path: accepting,
\* giving up, or leaving by an exception.
C10_PriorStatesNeverMutated ==
  [][ /\ Len(states') >= Len(states)
      /\ \A i \in 1..Len(states) : states'[i] = states[i]
      /\ (pc = "exit" /\ pc' = "returned") => Len(states') = Len(states) + 1
      /\ pc' = "raised" => states' = states ]_vars

\* a call that accepted a different estimate, its argument still as before
C10_Witness ==
  /\ HasReturned
  /\ Len(states) = 3
  /\ Accepted
  /\ Returned.values # Current.values
  /\ Returned.lambda # Current.lambda

\* a damped system that is the linearized graph of the call plus exactly one
\* prior per variable, all with the sigma of the given lambda
FreshlyDamped(d, l) ==
  /\ d.linear = Linearize(Current.values)
  /\ Len(d.priors) = Len(graph_.dims)
  /\ \A j \in 1..Len(d.priors) :
       /\ d.priors[j].key = j
       /\ d.priors[j].dim = graph_.dims[j]
       /\ d.priors[j].sigma = Sigma(l)
  /\ DampedSize(d) = graph_.size + Len(graph_.dims)

\* C14: within one call of iterate the graph is linearized exactly once and
\* the linearized system is not changed by the trials; the damped system of
\* every trial is a copy of it plus exactly one prior per variable with
\* sigma = 1/sqrt(lambda) of that trial, so it has |L| + #variables factors
\* and priors never accumulate from trial to trial.
C14_DampedSystemIsFresh ==
  /\ pc \in {"loop", "exit"}
       => /\ trace.nLinearize = 1
          /\ linear = << Linearize(Current.values) >>
          /\ trace.trials > 0 => /\ dampedSystem # NULL
                                 /\ dampedSystem = trace.damped
  /\ trace.trials > 0 => FreshlyDamped(trace.damped[1], trace.trialLambda)

\* after the second trial of a call on a problem with two variables and three
\* factors: the damped system of that trial has five factors
C14_Witness ==
  /\ pc = "loop"
  /\ trace.trials = 2
  /\ Len(graph_.dims) = 2
  /\ dampedSystem # NULL
  /\ DampedSize(dampedSystem[1]) = 5
  /\ dampedSystem[1].priors[2].sigma = Sigma(trace.trialLambda)
  /\ trace.trialLambda # Current.lambda

\* C15: the dimension vector is computed by the first call of iterate that
\* reaches line 58 and by no later call, and it is never changed afterwards;
\* the damped system of every trial is built from the cached vector.
C15_DimensionsCachedOnce ==
  [][ /\ dimensions_ # NULL
           => /\ dimensions_' = dimensions_
              /\ history'.nDims = history.nDims
      /\ (dimensions_ = NULL /\ dimensions_' # NULL)
           => /\ history.nDims = 0
              /\ history'.nDims = 1
              /\ dimensions_' = << DimsOf(states[cur'].values) >>
      /\ (pc = "loop" /\ trace' # trace)
           => /\ dimensions_ # NULL
              /\ Len(trace'.damped[1].priors) = Len(dimensions_[1])
              /\ \A j \in 1..Len(dimensions_[1]) :
                   trace'.damped[1].priors[j].dim = dimensions_[1][j]
    ]_vars

\* a trial of the second call: the vector was computed once, by the first
C15_Witness ==
  /\ cur = 2
  /\ pc = "loop"
  /\ trace.trials >= 1
  /\ history.nDims = 1
  /\ dimensions_ = << <<2, 1>> >>

\* what a rejected trial does to the call, as a function of the state before
\* the trial alone
RejectionEffect ==
  /\ pc' = IF lambda >= params_.lambdaUpperBound THEN "exit" ELSE "loop"
  /\ lambda' = IF lambda >= params_.lambdaUpperBound THEN lambda
               ELSE DblMul(lambda, params_.lambdaFactor)
  /\ trace'.rejected = Min(trace.rejected + 1, TrialCap)
  /\ UNCHANGED << next_values, next_error, states, cur, linear, dimensions_,
                  raised >>

\* C16: a trial whose solve fails as indefinite is treated exactly as a trial
\* whose candidate has a worse error: both have the same effect on lambda,
\* on the candidate kept and on leaving the loop, so two calls with the same
\* pattern of accepted and rejected trials return the same state whatever
\* the kinds of the rejections, give-up included.
C16_IndefiniteIsRejection ==
  [][ \A kind \in {"worse", "indefinite"} :
        (pc = "loop" /\ trace'.outcome = kind) => RejectionEffect ]_vars

\* a give-up whose two rejections ended with an indefinite solve: lambda was
\* grown once and the estimate of the state passed in is kept
C16_Witness ==
  /\ pc = "exit"
  /\ trace.outcome = "indefinite"
  /\ trace.rejected = 2
  /\ lambda # Current.lambda
  /\ lambda = Grown(Current.lambda, 1)
  /\ next_values = Current.values
  /\ next_error = Current.error

\* the variables of a Bayes net, and a net stored in elimination order: no
\* variable has two conditionals and the parents of every conditional are
\* stored after it
Frontals(all) == { all[i].frontal : i \in 1..Len(all) }
ValidOrder(all) ==
  /\ \A i, j \in 1..Len(all) : all[i].frontal = all[j].frontal => i = j
  /\ \A i \in 1..Len(all) : \A p \in ParentsOf(all[i]) :
       \E j \in (i + 1)..Len(all) : all[j].frontal = p
OptimizeReturned == query.op = "optimize" /\ query.at = "returned"

\* C11: for a model whose conditionals were added in a valid elimination
\* order, optimize() returns a most probable assignment: no assignment of
\* the variables has a larger joint probability (evaluate) than the one
\* returned.
C11_OptimizeIsMostProbable ==
  (OptimizeReturned /\ ValidOrder(conditionals))
    => \A a \in [Frontals(conditionals) -> Domain] :
         EvaluateAll(conditionals, a)
           <= EvaluateAll(conditionals, query.result)

\* the product of the table values of the conditionals with index in S
RECURSIVE TableProduct(_, _, _)
TableProduct(all, values, S) ==
  IF S = {} THEN 1
  ELSE LET i == CHOOSE i \in S : TRUE
       IN Lookup(all[i], values) * TableProduct(all, values, S \ {i})

\* the stored conditionals in another order
Orderings(n) ==
  { f \in [1..n -> 1..n] : \A i, j \in 1..n : f[i] = f[j] => i = j }
Permuted(all, f) == [ i \in 1..Len(all) |-> all[f[i]] ]
EvaluateReturned == query.op = "evaluate" /\ query.at = "returned"

Traversing == query.op \in {"optimize", "sample"}

\* C13: optimize() and sample() visit the stored conditionals in reverse
\* storage order, each exactly once; for a model stored in a valid
\* elimination order every parent of a conditional has a value when the
\* conditional is visited; the assignment returned gives a value to every
\* variable of the model, and it is empty for the empty model.
C13_ParentsFirstTraversal ==
  Traversing
    => /\ query.done \o query.todo
            = [ i \in 1..Len(conditionals) |-> Len(conditionals) + 1 - i ]
       /\ ValidOrder(conditionals)
            => /\ query.at # "failed"
               /\ query.todo # << >>
                    => ParentsOf(conditionals[Head(query.todo)])
                         \subseteq DOMAIN query.result
       /\ DOMAIN query.result
            = { conditionals[query.done[i]].frontal :
                  i \in 1..Len(query.done) }
       /\ query.at = "returned"
            => /\ query.todo = << >>
               /\ DOMAIN query.result = Frontals(conditionals)
               /\ conditionals = << >> => query.result = << >>

\* a sample of a chain of three variables, the child of the child stored
\* first and visited last
C13_Witness ==
  /\ query.op = "sample"
  /\ query.at = "returned"
  /\ ValidOrder(conditionals)
  /\ Len(conditionals) = 3
  /\ conditionals[1].parents # << >>
  /\ conditionals[2].parents # << >>
  /\ query.done = <<3, 2, 1>>
  /\ DOMAIN query.result = Keys

C18_ErrorBelongsToEstimate ==
  /\ \A i \in 1..Len(states) :
       states[i].error = graph_.error[states[i].values]
  /\ pc = "exit"
       => /\ next_error = graph_.error[next_values]
          /\ GaveUp => /\ next_values = Current.values
                       /\ next_error = Current.error
          /\ next_error <= Current.error
  /\ HasReturned
       => /\ Returned.error <= Current.error
          /\ GaveUp => Returned.values = Current.values
          /\ Returned.values # Current.values => Accepted

\* a call that rejected a worse candidate and then accepted a candidate
\* that is another estimate with a smaller error
C18_Witness ==
  /\ HasReturned
  /\ Accepted
  /\ trace.rejected >= 1
  /\ Returned.values # Current.values
  /\ Returned.error < Current.error
  /\ Returned.error = graph_.error[Returned.values]

\* C19: stalling is absorbing.  After a call that gave up, with linearize,
\* solve, retract and error deterministic, every later call of iterate
\* performs exactly one trial and gives up again: the states returned from
\* the first give-up on have the same estimate, error and lambda, and only
\* their iteration count advances.
C19_StallingIsAbsorbing ==
  history.stalledAt > 0
    => /\ \A j \in history.stalledAt..Len(states) :
            /\ states[j].values = states[history.stalledAt].values
            /\ states[j].error = states[history.stalledAt].error
            /\ states[j].lambda = states[history.stalledAt].lambda
            /\ states[j].iterations
                 = states[history.stalledAt].iterations
                     + (j - history.stalledAt)
       /\ cur >= history.stalledAt
            => /\ pc # "raised"
               /\ pc = "loop" => trace.trials = 0
               /\ pc \in {"exit", "returned"}
                    => (trace.trials = 1 /\ GaveUp)
               /\ pc = "exit"
                    => /\ lambda = Current.lambda
                       /\ next_values = Current.values
                       /\ next_error = Current.error

\* the first call gave up after two trials, the second after one
C19_Witness ==
  /\ history.stalledAt = 2
  /\ HasReturned
  /\ cur = 2
  /\ Len(states) = 3
  /\ trace.trials = 1
  /\ states[2].lambda # states[1].lambda
  /\ states[3].lambda = states[2].lambda
  /\ states[3].iterations = 2

\* lambdaUpperBound * lambdaFactor, in double arithmetic
DampingBound == DblMul(params_.lambdaUpperBound, params_.lambdaFactor)

\* the call in progress, or the last call, has lambdaFactor > 1 and was
\* passed a state with lambda <= lambdaUpperBound
BoundedCall ==
  /\ cur > 0
  /\ params_.lambdaFactor > 0
  /\ Current.lambda <= params_.lambdaUpperBound

====
